---- MODULE Spec2Model ----
(***************************************************************************)
(* PKGSMgr.  Spec is the client: chunk store, two-generation manifest      *)
(* bookkeeping, updater and rollback, one process at a time working on one *)
(* root.  SpecPackager is the packager publishing into one output          *)
(* directory, SpecRace two installs of one chunk at the same time,         *)
(* SpecCodec the manifest codec on bounded texts, and SpecTree build_tree   *)
(* on a file system with directories.  File names are sequences of         *)
(* characters, file contents are sequences of bytes, a directory is a      *)
(* function from names to files.                                           *)
(***************************************************************************)
EXTENDS Naturals, Sequences, FiniteSets, TLC

(***************************************************************************)
(* Bounds of the model.                                                    *)
(***************************************************************************)
\* Longest stream, in blocks, the server is made to send for one chunk.
MaxBlocks == 2
\* How many updater and rollback processes are started, one after the other.
MaxRuns == 4
\* How many packager runs are started, one after the other.
MaxPublishes == 2
\* Most tokens on a line given to parse_chunklist.
MaxTokens == 5
\* Longest path of a packaged file, in characters.
MaxPathLen == 2

\* The most lines of a manifest text given to parse_manifest as it stands.
MaxManifestLines == 3

\* The most components of a chunk path given to build_tree.
MaxComps == 2

\* The longest line of a header segment given to parse_headers.
MaxHeaderLen == 4

(***************************************************************************)
(* Build-time version of the client (CARGO_PKG_VERSION_MAJOR / _MINOR).    *)
(***************************************************************************)
MAJOR_VERSION == 1
MINOR_VERSION == 3

\* A missing file (manifests/current, manifests/old, the stored pointer digest).
None == "none"

(***************************************************************************)
(* Strings.                                                                *)
(***************************************************************************)
DigitChar == <<"0", "1", "2", "3", "4", "5", "6", "7", "8", "9">>

\* format!("{}", n) of an unsigned integer: its decimal digits.
RECURSIVE Dec(_)
Dec(n) == IF n < 10 THEN <<DigitChar[n + 1]>>
          ELSE Dec(n \div 10) \o <<DigitChar[(n % 10) + 1]>>

\* to_hex / hex::encode of one digest byte.
HexChar(b) == DigitChar[b + 1]

SeqMap(f(_), s) == [i \in 1..Len(s) |-> f(s[i])]

Reverse(s) == [i \in 1..Len(s) |-> s[Len(s) + 1 - i]]

(***************************************************************************)
(* str: the methods of the standard library the codec uses, on texts given *)
(* as sequences of characters.                                             *)
(***************************************************************************)
\* The first index at or after i where pat occurs in text, 0 when none does.
RECURSIVE find_from(_, _, _)
find_from(text, pat, i) ==
    IF i + Len(pat) - 1 > Len(text) THEN 0
    ELSE IF SubSeq(text, i, i + Len(pat) - 1) = pat THEN i
    ELSE find_from(text, pat, i + 1)

\* str::split_once: None, or the text before and after the first occurrence.
split_once(text, pat) ==
    LET i == find_from(text, pat, 1)
    IN IF i = 0
       THEN [found |-> FALSE, before |-> text, after |-> <<>>]
       ELSE [found |-> TRUE,
             before |-> SubSeq(text, 1, i - 1),
             after |-> SubSeq(text, i + Len(pat), Len(text))]

\* str::split: the pieces between the occurrences of pat, at least one piece.
RECURSIVE split(_, _)
split(text, pat) ==
    LET r == split_once(text, pat)
    IN IF r.found THEN <<r.before>> \o split(r.after, pat) ELSE <<text>>

\* str::lines: the pieces between newlines; a final newline ends the last
\* line and starts no empty one.
lines(text) ==
    LET pieces == split(text, <<"\n">>)
    IN IF pieces[Len(pieces)] = <<>>
       THEN SubSeq(pieces, 1, Len(pieces) - 1)
       ELSE pieces

IsWhitespace(c) == c \in {" ", "\n", "\t"}

\* str::trim
RECURSIVE trim(_)
trim(text) ==
    IF text = <<>> THEN text
    ELSE IF IsWhitespace(Head(text)) THEN trim(Tail(text))
    ELSE IF IsWhitespace(text[Len(text)]) THEN trim(SubSeq(text, 1, Len(text) - 1))
    ELSE text

\* [T]::join
RECURSIVE join(_, _)
join(pieces, sep) ==
    IF pieces = <<>> THEN <<>>
    ELSE IF Len(pieces) = 1 THEN pieces[1]
    ELSE pieces[1] \o sep \o join(Tail(pieces), sep)

DigitValue(c) == CHOOSE v \in 0..9 : DigitChar[v + 1] = c

RECURSIVE DigitsValue(_, _)
DigitsValue(text, acc) ==
    IF text = <<>> THEN acc
    ELSE DigitsValue(Tail(text), 10 * acc + DigitValue(Head(text)))

\* str::parse::<u32> and ::<u64>: an optional '+', then one digit or more.
\* (The numbers of the model stay far below the limit of either type.)
parse(text) ==
    LET digits == IF text # <<>> /\ Head(text) = "+" THEN Tail(text) ELSE text
    IN IF digits # <<>> /\ \A i \in 1..Len(digits) : \E v \in 1..10 : DigitChar[v] = digits[i]
       THEN [ok |-> TRUE, value |-> DigitsValue(digits, 0)]
       ELSE [ok |-> FALSE, value |-> 0]

(***************************************************************************)
(* utils.rs: Hasher.  The hasher state is the data written so far; the     *)
(* digest is an injective function of it (no two streams collide), given   *)
(* as text.  The two methods give different texts for the same data.       *)
(***************************************************************************)
HasherNew == <<>>

HasherWrite(state, data) == state \o data

HasherDigest(hash_method, state) ==
    IF hash_method = "blake3"
    THEN SeqMap(HexChar, state)
    ELSE SeqMap(HexChar, Reverse(state)) \o <<"x">>

(***************************************************************************)
(* chunks.rs                                                               *)
(***************************************************************************)
Chunk(permissions, size, hash, path) ==
    [hash |-> hash, size |-> size, path |-> path, permissions |-> permissions]

chunk_filename(chunk) == chunk.hash \o Dec(chunk.permissions)

\* chunk_path.join(format!("{}.new", chunk.hash))
temp_file_name(chunk) == chunk.hash \o <<".new">>


(***************************************************************************)
(* Files and directories.                                                  *)
(***************************************************************************)
EmptyFiles == [n \in {} |-> n]

Put(files, name, file) ==
    [n \in DOMAIN files \cup {name} |-> IF n = name THEN file ELSE files[n]]

Remove(files, name) == [n \in DOMAIN files \ {name} |-> files[n]]

NoDir == [exists |-> FALSE, files |-> EmptyFiles]

EmptyDir == [exists |-> TRUE, files |-> EmptyFiles]

Bit(mode, v) == (mode \div v) % 2 = 1

\* Permissions::set_readonly(true): the three write bits are cleared.
SetReadonly(mode) ==
    mode - (IF Bit(mode, 128) THEN 128 ELSE 0)
         - (IF Bit(mode, 16) THEN 16 ELSE 0)
         - (IF Bit(mode, 2) THEN 2 ELSE 0)

(***************************************************************************)
(* The repository served to the client.  A manifest text is named by its   *)
(* digest (the pointer's content); Parsed gives what parse_manifest makes  *)
(* of it.  MinVersion <<>> is an absent header.                            *)
(***************************************************************************)
Bytes == {1, 4}

\* What a fetch of one chunk object can deliver: the right bytes, wrong bytes,
\* too few or too many.
Streams == UNION {[1..n -> Bytes] : n \in 0..MaxBlocks}

ManifestIds == {"mA", "mB", "mC", "mD", "mE"}

Parsed(m) ==
    CASE m = "mA" -> [MinVersion |-> <<>>, Hasher |-> None,
                      chunks |-> <<Chunk(420, 0, <<"1">>, "x"),
                                   Chunk(420, 0, <<"1">>, "y")>>]
      [] m = "mB" -> [MinVersion |-> <<1, 2>>, Hasher |-> None,
                      chunks |-> <<Chunk(20, 0, <<"1", "4">>, "x")>>]
      [] m = "mC" -> [MinVersion |-> <<1>>, Hasher |-> "blake3",
                      chunks |-> <<Chunk(493, 0, <<"1">>, "x")>>]
      [] m = "mD" -> [MinVersion |-> <<2, 0>>, Hasher |-> "blake3",
                      chunks |-> <<Chunk(493, 0, <<"1">>, "y")>>]
      [] m = "mE" -> [MinVersion |-> <<1, 5>>, Hasher |-> "xxh3_128",
                      chunks |-> <<Chunk(420, 0, <<"4", "x">>, "x")>>]

\* parse_manifest(text).1
Chunklist(m) == IF m = None THEN <<>> ELSE Parsed(m).chunks

(***************************************************************************)
(* pkgsmgr-updater.rs: the version gate and the header resolution.         *)
(***************************************************************************)
\* "proceed", or the panic taken.  parts = <<>>: no MinVersion header.
VersionGate(parts, major, minor) ==
    IF parts = <<>> THEN "proceed"
    ELSE IF parts[1] < major THEN "major"
    ELSE IF Len(parts) >= 2 /\ parts[2] > minor /\ major = parts[1] THEN "minor"
    ELSE "proceed"

\* let mut hasher = HashType::Blake3, replaced by a recognised Hasher header.
ResolveHasher(header) ==
    IF header = "xxh3_128" THEN "xxh3_128" ELSE "blake3"

(***************************************************************************)
(* manifest.rs                                                             *)
(***************************************************************************)
\* Mutant: a key that is already in the map keeps its value.
RECURSIVE InsertHeaders_keep_first(_, _, _)
InsertHeaders_keep_first(headers, ls, i) ==
    IF i > Len(ls) THEN headers
    ELSE LET r == split_once(ls[i], <<":">>)
         IN IF r.found /\ r.before \notin DOMAIN headers
            THEN InsertHeaders_keep_first(Put(headers, r.before, trim(r.after)), ls, i + 1)
            ELSE InsertHeaders_keep_first(headers, ls, i + 1)

\* The headers after the lines from i on are inserted: a function from keys
\* to values.
RECURSIVE InsertHeaders(_, _, _)
InsertHeaders(headers, ls, i) ==
    IF i > Len(ls) THEN headers
    ELSE LET r == split_once(ls[i], <<":">>)
         IN IF r.found
            THEN InsertHeaders(Put(headers, r.before, trim(r.after)), ls, i + 1)
            ELSE InsertHeaders(headers, ls, i + 1)

parse_headers(raw_headers) == InsertHeaders(EmptyFiles, lines(raw_headers), 1)

\* Mutant: the path is the fourth token alone.
RECURSIVE PushChunks_fourth_token(_, _, _)
PushChunks_fourth_token(chunklist, ls, i) ==
    IF i > Len(ls) THEN [ok |-> TRUE, chunks |-> chunklist]
    ELSE LET parts == split(ls[i], <<";">>)
         IN IF Len(parts) < 3 THEN PushChunks_fourth_token(chunklist, ls, i + 1)
            ELSE IF ~parse(parts[1]).ok \/ ~parse(parts[2]).ok
            THEN [ok |-> FALSE, chunks |-> chunklist]
            ELSE PushChunks_fourth_token(
                   Append(chunklist,
                          Chunk(parse(parts[1]).value, parse(parts[2]).value, parts[3],
                                IF Len(parts) >= 4 THEN parts[4] ELSE <<>>)),
                   ls, i + 1)

\* The loop of parse_chunklist from line i on; ok is FALSE when an expect
\* of the loop panics.
RECURSIVE PushChunks(_, _, _)
PushChunks(chunklist, ls, i) ==
    IF i > Len(ls) THEN [ok |-> TRUE, chunks |-> chunklist]
    ELSE LET parts == split(ls[i], <<";">>)
         IN IF Len(parts) < 3 THEN PushChunks(chunklist, ls, i + 1)
            ELSE IF ~parse(parts[1]).ok \/ ~parse(parts[2]).ok
            THEN [ok |-> FALSE, chunks |-> chunklist]
            ELSE PushChunks(
                   Append(chunklist,
                          Chunk(parse(parts[1]).value, parse(parts[2]).value, parts[3],
                                join(SubSeq(parts, 4, Len(parts)), <<";">>))),
                   ls, i + 1)

parse_chunklist(raw_chunklist) == PushChunks(<<>>, lines(raw_chunklist), 1)

\* ok is FALSE when parse_manifest panics, on the divider or in the chunk list.
parse_manifest(raw_manifest) ==
    LET r == split_once(raw_manifest, <<"-", "-", "-">>)
    IN IF ~r.found
       THEN [ok |-> FALSE, headers |-> EmptyFiles, chunks |-> <<>>]
       ELSE [ok |-> parse_chunklist(r.after).ok,
             headers |-> parse_headers(r.before),
             chunks |-> parse_chunklist(r.after).chunks]

\* The stored pointer digest: changed, and what is stored afterwards.
try_update_manifest_hash(stored, manifest_hash) ==
    IF stored = manifest_hash
    THEN [changed |-> FALSE, stored |-> stored]
    ELSE [changed |-> TRUE, stored |-> manifest_hash]

\* Mutant: no comparison with the current text.
update_manifest_always(cur, prev, new_manifest) ==
    IF cur = None
    THEN [changed |-> TRUE, current |-> new_manifest, old |-> prev]
    ELSE [changed |-> TRUE, current |-> new_manifest, old |-> cur]

\* Mutant: the previous current is dropped instead of renamed to old.
update_manifest_keep_old(cur, prev, new_manifest) ==
    IF cur = None
    THEN [changed |-> TRUE, current |-> new_manifest, old |-> prev]
    ELSE IF cur = new_manifest
    THEN [changed |-> FALSE, current |-> cur, old |-> prev]
    ELSE [changed |-> TRUE, current |-> new_manifest, old |-> prev]

\* Ok(changed) and the two files afterwards.
update_manifest(cur, prev, new_manifest) ==
    IF cur = None
    THEN [changed |-> TRUE, current |-> new_manifest, old |-> prev]
    ELSE IF cur = new_manifest
    THEN [changed |-> FALSE, current |-> cur, old |-> prev]
    ELSE [changed |-> TRUE, current |-> new_manifest, old |-> cur]

\* update_manifest can fail (Err) at its second write, after the rename.
update_manifest_can_fail_late(cur, new_manifest) ==
    cur # None /\ cur # new_manifest

\* The loop of build_tree from chunk i on: Ok(files) or Err with what was linked.
RECURSIVE LinkChunks(_, _, _, _)
LinkChunks(files, chunkstore, chunks, i) ==
    IF i > Len(chunks) THEN [ok |-> TRUE, files |-> files]
    ELSE LET chunk == chunks[i]
             src == chunk_filename(chunk)
         IN IF src \notin DOMAIN chunkstore \/ chunk.path \in DOMAIN files
            THEN [ok |-> FALSE, files |-> files]
            ELSE LinkChunks(Put(files, chunk.path, chunkstore[src]),
                            chunkstore, chunks, i + 1)

\* Mutant: the last chunk of the list is not linked.
build_tree_short(chunkstore, chunks) ==
    LET r == LinkChunks(EmptyFiles, chunkstore, SubSeq(chunks, 1, Len(chunks) - 1), 1)
    IN [ok |-> r.ok, dir |-> [exists |-> TRUE, files |-> r.files]]

\* The staging directory after build_tree, and whether it returned Ok.
build_tree(chunkstore, chunks) ==
    LET r == LinkChunks(EmptyFiles, chunkstore, chunks, 1)
    IN [ok |-> r.ok, dir |-> [exists |-> TRUE, files |-> r.files]]

(***************************************************************************)
(* chunks.rs: clean_old_chunks                                             *)
(***************************************************************************)
ChunkNames(chunks) == {chunk_filename(chunks[i]) : i \in 1..Len(chunks)}

\* Mutant: only the current manifest is read.
allowed_chunks_current_only(cur, prev) == ChunkNames(Chunklist(cur))

\* allowed_chunks after the two optional manifests are read.
allowed_chunks(cur, prev) ==
    (IF cur # None THEN ChunkNames(Chunklist(cur)) ELSE {})
    \cup (IF prev # None THEN ChunkNames(Chunklist(prev)) ELSE {})

\* The read_dir loop over the entries still to visit.
RECURSIVE Sweep(_, _, _, _)
Sweep(chunkstore, entries, allowed, freed) ==
    IF entries = {} THEN [freed |-> freed, chunkstore |-> chunkstore]
    ELSE LET filename == CHOOSE n \in entries : TRUE
         IN IF filename \notin allowed
            THEN Sweep(Remove(chunkstore, filename), entries \ {filename}, allowed,
                       freed + Len(chunkstore[filename].data))
            ELSE Sweep(chunkstore, entries \ {filename}, allowed, freed)

\* Mutant: the size of a removed entry is not added.
clean_old_chunks_no_count(cur, prev, chunkstore) ==
    [freed |-> 0,
     chunkstore |-> Sweep(chunkstore, DOMAIN chunkstore, allowed_chunks(cur, prev), 0).chunkstore]

\* Ok(freed) and the chunk store afterwards.
clean_old_chunks(cur, prev, chunkstore) ==
    Sweep(chunkstore, DOMAIN chunkstore, allowed_chunks(cur, prev), 0)

(***************************************************************************)
(* chunks.rs: install_chunk, from the end of the stream on.                *)
(***************************************************************************)
\* Mutant: the digest is not compared.
install_verified_unchecked(chunk, hash_method, state) == TRUE

\* hash == chunk.hash, the negation of the panic's condition.
install_verified(chunk, hash_method, state) ==
    HasherDigest(hash_method, state) = chunk.hash

\* set_mode, set_readonly and the rename of the temporary file.
install_rename(chunkstore, chunk) ==
    LET temp == temp_file_name(chunk)
        file == [data |-> chunkstore[temp].data,
                 mode |-> SetReadonly(chunk.permissions)]
    IN Put(Remove(chunkstore, temp), chunk_filename(chunk), file)

(***************************************************************************)
(* State.                                                                  *)
(***************************************************************************)
VARIABLES
    dirs,           \* .pkgsmgr/chunkstore and .pkgsmgr/manifests exist
    chunkstore,     \* .pkgsmgr/chunkstore: file name -> [data, mode]
    current,        \* manifests/current: a manifest text or None
    old,            \* manifests/old: a manifest text or None
    stored_hash,    \* the pointer digest kept by try_update_manifest_hash
    staging,        \* .pkgsmgr/staging: [exists, files]
    usr,            \* <root>/usr: [exists, files]
    pc,             \* where the running process is; "idle": none runs
    manifest_hash,  \* the pointer digest the updater fetched
    manifest_raw,   \* the run's manifest text (old_manifest in a rollback)
    idx,            \* position of the install loop in the chunk list
    stream,         \* what the response reader has still to deliver
    hasher,         \* the hasher's state
    outcome,        \* "running", or how the last process ended
    fetched,        \* the process made a network request
    swapped,        \* the process's renameat2 succeeded
    gc_ran,         \* the process called clean_old_chunks
    freed,          \* what clean_old_chunks returned
    runs            \* how many processes have been started

\* The packager and its output directory (the repository it publishes).
VARIABLES
    out_chunks,     \* <output>/chunks: file name -> [data, linked]
    out_objects,    \* <output>/<digest>: the manifest objects, name -> text
    out_pointer,    \* <output>/manifest: [exists, text]
    out_tmp,        \* <output>/manifest.tmp: [exists, text]
    ppc,            \* where the running packager is; "idle": none runs
    p_args,         \* hash, compression and the files discovered under input_path
    p_idx,          \* position of the loop over the files
    p_hashes,       \* the hashes computed so far, in the order of the files
    p_manifest,     \* the manifest text generated
    p_outcome,      \* "running", or how the last packager run ended
    p_runs          \* how many packager runs have been started

\* Two updater processes in the install of one chunk, on one chunk store given
\* with its directory entries and its files apart.
VARIABLES
    r_names,        \* .pkgsmgr/chunkstore: file name -> the file it is a link to
    r_inodes,       \* the files: number -> [data, mode]
    inst            \* process -> [pc, fd, off, stream, hasher, result]

\* The manifest codec applied to one input.
VARIABLES
    c_pc,           \* "idle", or what has been done with the input
    c_job,          \* hash, compression and files of a manifest to generate
    c_text,         \* the text given to the parser
    c_result        \* what the parser returned

\* build_tree on a file system whose paths have components.
VARIABLES
    t_pc,           \* "idle", "clear", "link" or "done"
    t_fs,           \* absolute path -> [dir, data, mode]
    t_before,       \* the file system when build_tree was called
    t_chunks,       \* the chunks given to build_tree
    t_idx,          \* the chunk the loop is at
    t_result        \* "running", "ok" or "err"

disk == <<dirs, chunkstore, current, old, stored_hash, staging, usr>>
locals == <<manifest_hash, manifest_raw, idx, stream, hasher>>
flags == <<fetched, swapped, gc_ran, freed, runs>>
client == <<dirs, chunkstore, current, old, stored_hash, staging, usr, pc,
            manifest_hash, manifest_raw, idx, stream, hasher, outcome, fetched, swapped, gc_ran, freed, runs>>
output == <<out_chunks, out_objects, out_pointer, out_tmp>>
server == <<out_chunks, out_objects, out_pointer, out_tmp,
            ppc, p_args, p_idx, p_hashes, p_manifest, p_outcome, p_runs>>
race == <<r_names, r_inodes, inst>>
codec == <<c_pc, c_job, c_text, c_result>>
tree == <<t_pc, t_fs, t_before, t_chunks, t_idx, t_result>>
not_client == <<server, race, codec, tree>>
not_server == <<client, race, codec, tree>>
not_race == <<client, server, codec, tree>>
not_codec == <<client, server, race, tree>>
not_tree == <<client, server, race, codec>>
vars == <<client, server, race, codec, tree>>

\* build_tree has not been called.
TreeInit ==
    /\ t_pc = "idle"
    /\ t_fs = EmptyFiles
    /\ t_before = EmptyFiles
    /\ t_chunks = <<>>
    /\ t_idx = 0
    /\ t_result = "running"

\* No input has been given to the codec.
CodecInit ==
    /\ c_pc = "idle"
    /\ c_job = [hash |-> "blake3", compression |-> "none", files |-> <<>>]
    /\ c_text = <<>>
    /\ c_result = [ok |-> TRUE, headers |-> EmptyFiles, chunks |-> <<>>]

Procs == {1, 2}

\* Both processes are at the head of the install loop, at the same chunk, and
\* the chunk store is empty.
RaceInit ==
    /\ r_names = EmptyFiles
    /\ r_inodes = <<>>
    /\ inst = [p \in Procs |-> [pc |-> "check", fd |-> 0, off |-> 0, stream |-> <<>>,
                                 hasher |-> HasherNew, result |-> "running"]]

\* A text file that is missing, and one that holds a text.
NoText == [exists |-> FALSE, text |-> <<>>]
Text(t) == [exists |-> TRUE, text |-> t]

\* No packager has run: the output directory is empty.
PackagerInit ==
    /\ out_chunks = EmptyFiles
    /\ out_objects = EmptyFiles
    /\ out_pointer = NoText
    /\ out_tmp = NoText
    /\ ppc = "idle"
    /\ p_args = [hash |-> "blake3", compression |-> "none", files |-> <<>>]
    /\ p_idx = 0
    /\ p_hashes = <<>>
    /\ p_manifest = <<>>
    /\ p_outcome = "none"
    /\ p_runs = 0

Init ==
    /\ PackagerInit
    /\ TreeInit
    /\ RaceInit
    /\ CodecInit
    /\ dirs = FALSE
    /\ chunkstore = EmptyFiles
    /\ current = None
    /\ old = None
    /\ stored_hash = None
    /\ staging = NoDir
    /\ usr = NoDir
    /\ pc = "idle"
    /\ manifest_hash = None
    /\ manifest_raw = None
    /\ idx = 0
    /\ stream = <<>>
    /\ hasher = HasherNew
    /\ outcome = "none"
    /\ fetched = FALSE
    /\ swapped = FALSE
    /\ gc_ran = FALSE
    /\ freed = 0
    /\ runs = 0

\* The process ends and the disk stays as it is.  What the process had read
\* (its manifest, its place in the chunk list) is kept until the next process
\* starts, as the record of what the ended run was working on.
Exit(how) ==
    /\ pc' = "idle"
    /\ outcome' = how
    /\ UNCHANGED <<manifest_hash, manifest_raw, idx>>
    /\ stream' = <<>>
    /\ hasher' = HasherNew

\* The process ends in its first step.
End(how) ==
    /\ pc' = "idle"
    /\ outcome' = how

\* The process goes on at the next step.
Goto(next) ==
    /\ pc' = next
    /\ outcome' = "running"

(***************************************************************************)
(* pkgsmgr-updater.rs: main                                                *)
(***************************************************************************)
\* Directories, the pointer fetch and try_update_manifest_hash.
UpdStart ==
    /\ pc = "idle"
    /\ UNCHANGED not_client
    /\ runs < MaxRuns
    /\ runs' = runs + 1
    /\ dirs' = TRUE
    /\ fetched' = TRUE
    /\ swapped' = FALSE
    /\ gc_ran' = FALSE
    /\ freed' = 0
    /\ UNCHANGED <<chunkstore, current, old, staging, usr>>
    /\ manifest_raw' = None
    /\ idx' = 0
    /\ UNCHANGED <<stream, hasher>>
    /\ \/ /\ End("transport_error")
          /\ manifest_hash' = None
          /\ UNCHANGED stored_hash
       \/ \E h \in ManifestIds :
            LET r == try_update_manifest_hash(stored_hash, h)
            IN /\ stored_hash' = r.stored
               /\ manifest_hash' = h
               /\ IF r.changed THEN Goto("u_manifest") ELSE End("no_update")

\* The manifest object is fetched and parsed.
UpdFetchManifest ==
    /\ pc = "u_manifest"
    /\ UNCHANGED not_client
    /\ UNCHANGED <<disk, flags>>
    /\ \/ Exit("transport_error")
       \/ /\ Goto("u_headers")
          /\ manifest_raw' = manifest_hash
          /\ UNCHANGED <<manifest_hash, idx, stream, hasher>>

\* Mutant: update_manifest is called right after the headers, before the installs.
UpdHeaders_commit_first ==
    /\ pc = "u_headers"
    /\ UNCHANGED not_client
    /\ UNCHANGED <<dirs, chunkstore, stored_hash, staging, usr, flags>>
    /\ LET gate == VersionGate(Parsed(manifest_raw).MinVersion, MAJOR_VERSION, MINOR_VERSION)
       IN IF gate = "proceed"
          THEN /\ Goto("u_install")
               /\ idx' = 1
               /\ current' = update_manifest(current, old, manifest_raw).current
               /\ old' = update_manifest(current, old, manifest_raw).old
               /\ UNCHANGED <<manifest_hash, manifest_raw, stream, hasher>>
          ELSE Exit(gate) /\ UNCHANGED <<current, old>>

\* The loop over the headers.
UpdHeaders ==
    /\ pc = "u_headers"
    /\ UNCHANGED not_client
    /\ UNCHANGED <<disk, flags>>
    /\ LET gate == VersionGate(Parsed(manifest_raw).MinVersion, MAJOR_VERSION, MINOR_VERSION)
       IN IF gate = "proceed"
          THEN /\ Goto("u_install")
               /\ idx' = 1
               /\ UNCHANGED <<manifest_hash, manifest_raw, stream, hasher>>
          ELSE Exit(gate)

hash_method == ResolveHasher(Parsed(manifest_raw).Hasher)

chunk == Chunklist(manifest_raw)[idx]

\* Mutant: the loop installs every chunk, present in the store or not.
UpdInstallNext_always_fetch ==
    /\ pc = "u_install"
    /\ UNCHANGED not_client
    /\ UNCHANGED <<dirs, current, old, stored_hash, staging, usr, flags>>
    /\ IF idx > Len(Chunklist(manifest_raw))
       THEN /\ Goto("u_commit")
            /\ UNCHANGED <<chunkstore, locals>>
       ELSE \/ /\ Exit("transport_error")
               /\ UNCHANGED chunkstore
            \/ \E s \in Streams :
                 /\ Goto("u_read")
                 /\ stream' = s
                 /\ hasher' = HasherNew
                 /\ chunkstore' = Put(chunkstore, temp_file_name(chunk),
                                      [data |-> <<>>, mode |-> 0])
                 /\ UNCHANGED <<manifest_hash, manifest_raw, idx>>

\* The head of the install loop, and install_chunk up to the creation of the
\* temporary file.
UpdInstallNext ==
    /\ pc = "u_install"
    /\ UNCHANGED not_client
    /\ UNCHANGED <<dirs, current, old, stored_hash, staging, usr, flags>>
    /\ IF idx > Len(Chunklist(manifest_raw))
       THEN /\ Goto("u_commit")
            /\ UNCHANGED <<chunkstore, locals>>
       ELSE IF chunk_filename(chunk) \in DOMAIN chunkstore
       THEN /\ Goto("u_install")
            /\ idx' = idx + 1
            /\ UNCHANGED <<chunkstore, manifest_hash, manifest_raw, stream, hasher>>
       ELSE \/ /\ Exit("transport_error")
               /\ UNCHANGED chunkstore
            \/ \E s \in Streams :
                 /\ Goto("u_read")
                 /\ stream' = s
                 /\ hasher' = HasherNew
                 /\ chunkstore' = Put(chunkstore, temp_file_name(chunk),
                                      [data |-> <<>>, mode |-> 0])
                 /\ UNCHANGED <<manifest_hash, manifest_raw, idx>>

\* One turn of the read loop with n > 0, or its panic on a read error.
UpdReadBlock ==
    /\ pc = "u_read"
    /\ UNCHANGED not_client
    /\ stream # <<>>
    /\ UNCHANGED <<dirs, current, old, stored_hash, staging, usr, flags>>
    /\ \/ /\ Exit("network_buf_err")
          /\ UNCHANGED chunkstore
       \/ LET temp == temp_file_name(chunk)
              buf == <<Head(stream)>>
          IN /\ Goto("u_read")
             /\ hasher' = HasherWrite(hasher, buf)
             /\ chunkstore' = [chunkstore EXCEPT ![temp].data = @ \o buf]
             /\ stream' = Tail(stream)
             /\ UNCHANGED <<manifest_hash, manifest_raw, idx>>

\* Mutant: a chunk whose digest is wrong is passed over and the loop goes on.
UpdInstallEnd_continue ==
    /\ pc = "u_read"
    /\ UNCHANGED not_client
    /\ stream = <<>>
    /\ UNCHANGED <<dirs, current, old, stored_hash, staging, usr, flags>>
    /\ Goto("u_install")
    /\ idx' = idx + 1
    /\ hasher' = HasherNew
    /\ UNCHANGED <<manifest_hash, manifest_raw, stream>>
    /\ chunkstore' = IF install_verified(chunk, hash_method, hasher)
                     THEN install_rename(chunkstore, chunk)
                     ELSE chunkstore

\* n == 0: the digest is compared, then the temporary file is renamed.
UpdInstallEnd ==
    /\ pc = "u_read"
    /\ UNCHANGED not_client
    /\ stream = <<>>
    /\ UNCHANGED <<dirs, current, old, stored_hash, staging, usr, flags>>
    /\ IF install_verified(chunk, hash_method, hasher)
       THEN /\ Goto("u_install")
            /\ chunkstore' = install_rename(chunkstore, chunk)
            /\ idx' = idx + 1
            /\ hasher' = HasherNew
            /\ UNCHANGED <<manifest_hash, manifest_raw, stream>>
       ELSE /\ Exit("integrity_error")
            /\ UNCHANGED chunkstore

\* update_manifest, and the early return when nothing has changed.
UpdCommit ==
    /\ pc = "u_commit"
    /\ UNCHANGED not_client
    /\ UNCHANGED <<dirs, chunkstore, stored_hash, staging, usr, flags>>
    /\ \/ LET r == update_manifest(current, old, manifest_raw)
          IN /\ current' = r.current
             /\ old' = r.old
             /\ IF r.changed
                THEN Goto("u_build") /\ UNCHANGED locals
                ELSE Exit("unchanged")
       \/ /\ update_manifest_can_fail_late(current, manifest_raw)
          /\ current' = None
          /\ old' = current
          /\ Exit("manifest_io_error")

UpdBuild ==
    /\ pc = "u_build"
    /\ UNCHANGED not_client
    /\ UNCHANGED <<dirs, chunkstore, current, old, stored_hash, usr, flags>>
    /\ LET r == build_tree(chunkstore, Chunklist(manifest_raw))
       IN /\ staging' = r.dir
          /\ IF r.ok
             THEN Goto("u_swap") /\ UNCHANGED locals
             ELSE Exit("build_failed")

\* usr is created when missing, then exchanged with staging.
UpdSwap ==
    /\ pc = "u_swap"
    /\ UNCHANGED not_client
    /\ UNCHANGED <<dirs, chunkstore, current, old, stored_hash, fetched, gc_ran, freed, runs>>
    /\ LET usr_dir == IF usr.exists THEN usr ELSE EmptyDir
       IN \/ /\ usr' = staging
             /\ staging' = usr_dir
             /\ swapped' = TRUE
             /\ Goto("u_gc")
             /\ UNCHANGED locals
          \/ /\ usr' = usr_dir
             /\ UNCHANGED <<staging, swapped>>
             /\ Exit("swap_failed")

\* Mutant: the collection runs in place of the tree build, before the swap.
UpdGc_before_swap ==
    /\ pc = "u_build"
    /\ UNCHANGED not_client
    /\ UNCHANGED <<dirs, current, old, stored_hash, staging, usr, fetched, swapped, runs>>
    /\ LET r == clean_old_chunks(current, old, chunkstore)
       IN /\ chunkstore' = r.chunkstore
          /\ freed' = r.freed
          /\ gc_ran' = TRUE
          /\ Exit("updated")

\* clean_old_chunks, and the end of the run.
UpdGc ==
    /\ pc = "u_gc"
    /\ UNCHANGED not_client
    /\ UNCHANGED <<dirs, current, old, stored_hash, staging, usr, fetched, swapped, runs>>
    /\ LET r == clean_old_chunks(current, old, chunkstore)
       IN /\ chunkstore' = r.chunkstore
          /\ freed' = r.freed
          /\ gc_ran' = TRUE
          /\ Exit("updated")

(***************************************************************************)
(* pkgsmgr-rollback.rs: main                                               *)
(***************************************************************************)
\* Mutant: manifests/old is read without the test that it exists.
RbStart_unchecked ==
    /\ pc = "idle"
    /\ UNCHANGED not_client
    /\ runs < MaxRuns
    /\ runs' = runs + 1
    /\ dirs' = TRUE
    /\ fetched' = FALSE
    /\ swapped' = FALSE
    /\ gc_ran' = FALSE
    /\ freed' = 0
    /\ UNCHANGED <<chunkstore, current, old, stored_hash, staging, usr>>
    /\ manifest_hash' = None
    /\ idx' = 0
    /\ UNCHANGED <<stream, hasher>>
    /\ Goto("r_commit")
    /\ manifest_raw' = old

\* Directories, the test for manifests/old, and its read.
RbStart ==
    /\ pc = "idle"
    /\ UNCHANGED not_client
    /\ runs < MaxRuns
    /\ runs' = runs + 1
    /\ dirs' = TRUE
    /\ fetched' = FALSE
    /\ swapped' = FALSE
    /\ gc_ran' = FALSE
    /\ freed' = 0
    /\ UNCHANGED <<chunkstore, current, old, stored_hash, staging, usr>>
    /\ manifest_hash' = None
    /\ idx' = 0
    /\ UNCHANGED <<stream, hasher>>
    /\ IF old = None
       THEN /\ End("no_rollback")
            /\ manifest_raw' = None
       ELSE /\ Goto("r_commit")
            /\ manifest_raw' = old

RbCommit ==
    /\ pc = "r_commit"
    /\ UNCHANGED not_client
    /\ UNCHANGED <<dirs, chunkstore, stored_hash, staging, usr, flags>>
    /\ \/ LET r == update_manifest(current, old, manifest_raw)
          IN /\ current' = r.current
             /\ old' = r.old
             /\ Goto("r_build")
             /\ UNCHANGED locals
       \/ /\ update_manifest_can_fail_late(current, manifest_raw)
          /\ current' = None
          /\ old' = current
          /\ Exit("manifest_io_error")

RbBuild ==
    /\ pc = "r_build"
    /\ UNCHANGED not_client
    /\ UNCHANGED <<dirs, chunkstore, current, old, stored_hash, usr, flags>>
    /\ LET r == build_tree(chunkstore, Chunklist(manifest_raw))
       IN /\ staging' = r.dir
          /\ IF r.ok
             THEN Goto("r_swap") /\ UNCHANGED locals
             ELSE Exit("build_failed")

\* The exchange; it fails when there is no usr to exchange with.
RbSwap ==
    /\ pc = "r_swap"
    /\ UNCHANGED not_client
    /\ UNCHANGED <<dirs, chunkstore, current, old, stored_hash, fetched, gc_ran, freed, runs>>
    /\ \/ /\ usr.exists
          /\ usr' = staging
          /\ staging' = usr
          /\ swapped' = TRUE
          /\ Exit("rolled_back")
       \/ /\ UNCHANGED <<usr, staging, swapped>>
          /\ Exit("swap_failed")

\* The process is stopped from outside between two steps.
Kill ==
    /\ pc # "idle"
    /\ UNCHANGED not_client
    /\ UNCHANGED <<disk, flags>>
    /\ Exit("killed")

Next ==
    \/ UpdStart
    \/ UpdFetchManifest
    \/ UpdHeaders
    \/ UpdInstallNext
    \/ UpdReadBlock
    \/ UpdInstallEnd
    \/ UpdCommit
    \/ UpdBuild
    \/ UpdSwap
    \/ UpdGc
    \/ RbStart
    \/ RbCommit
    \/ RbBuild
    \/ RbSwap
    \/ Kill

Spec == Init /\ [][Next]_vars

(***************************************************************************)
(* pkgsmgr-packager.rs                                                     *)
(***************************************************************************)
HashTypes == {"blake3", "xxh3_128"}
Compressions == {"none", "zstd"}

\* A regular file under input_path: its path below it, its bytes and its
\* st_mode (0o100644 = 33188, 0o100755 = 33261).
InputFile(path, data, mode) == [path |-> path, data |-> data, mode |-> mode]

\* The regular files the walk can discover, in the order it finds them.
Trees ==
    {<<InputFile(<<"a">>, <<1>>, 33188)>>,
     <<InputFile(<<"a">>, <<1>>, 33188), InputFile(<<"b">>, <<1>>, 33188)>>,
     <<InputFile(<<"a", ";", "b">>, <<4>>, 33261), InputFile(<<"c">>, <<1, 4>>, 33188)>>}

\* What the zstd encoder makes of a file: another text, from which the data
\* can be recovered.
Zstd(data) == <<0>> \o data

\* blake3::hash(manifest.as_bytes()).to_hex(): one name for each text.
ManifestDigest(text) == <<"#">> \o text

\* format!("{mode};{size};{hash};{path}\n")
manifest_line(mode, size, hash, path) ==
    Dec(mode) \o <<";">> \o Dec(size) \o <<";">> \o hash \o <<";">> \o path \o <<"\n">>

RECURSIVE manifest_lines(_, _, _)
manifest_lines(files, hashes, i) ==
    IF i > Len(files) THEN <<>>
    ELSE manifest_line(files[i].mode, Len(files[i].data) \div 1024, hashes[i], files[i].path)
         \o manifest_lines(files, hashes, i + 1)

\* The manifest text of the run: the headers, the divider and one line a file.
generate_manifest(compression, hash, files, hashes) ==
    (IF compression = "zstd" THEN <<"C", "o", "m", "p", "r", "e", "s", "s", "i", "o", "n", ":", " ", "z", "s", "t", "d", "\n">> ELSE <<>>)
    \o (IF hash = "blake3" THEN <<"H", "a", "s", "h", "e", "r", ":", " ", "b", "l", "a", "k", "e", "3", "\n">>
        ELSE <<"H", "a", "s", "h", "e", "r", ":", " ", "x", "x", "h", "3", "_", "1", "2", "8", "\n">>)
    \o <<"-", "-", "-", "\n">>
    \o manifest_lines(files, hashes, 1)

\* format!("{hash}.zstd")
compressed_chunk_filename(hash) == hash \o <<".zstd">>

PExit(how) ==
    /\ ppc' = "idle"
    /\ p_outcome' = how

PGoto(next) ==
    /\ ppc' = next
    /\ p_outcome' = "running"

p_file == p_args.files[p_idx]

\* Args::parse, the chunks directory and the walk over input_path.
PkgStart ==
    /\ ppc = "idle"
    /\ UNCHANGED not_server
    /\ p_runs < MaxPublishes
    /\ p_runs' = p_runs + 1
    /\ \E h \in HashTypes, c \in Compressions, files \in Trees :
         p_args' = [hash |-> h, compression |-> c, files |-> files]
    /\ p_idx' = 1
    /\ p_hashes' = <<>>
    /\ p_manifest' = <<>>
    /\ UNCHANGED output
    /\ PGoto("p_hash")

\* The head of the loop over the files, and hash_file.
PkgHash ==
    /\ ppc = "p_hash"
    /\ UNCHANGED not_server
    /\ UNCHANGED <<output, p_args, p_idx, p_manifest, p_runs>>
    /\ IF p_idx > Len(p_args.files)
       THEN PGoto("p_emit") /\ UNCHANGED p_hashes
       ELSE \/ PExit("io_error") /\ UNCHANGED p_hashes
            \/ /\ p_hashes' = Append(p_hashes, HasherDigest(p_args.hash, p_file.data))
               /\ PGoto("p_compress")

\* compress: the panic on Compression::None, or the compressed chunk written
\* when there is none yet.
PkgCompress ==
    /\ ppc = "p_compress"
    /\ UNCHANGED not_server
    /\ UNCHANGED <<out_objects, out_pointer, out_tmp, p_args, p_idx, p_hashes, p_manifest, p_runs>>
    /\ IF p_args.compression = "none"
       THEN PExit("compress_panic") /\ UNCHANGED out_chunks
       ELSE LET name == compressed_chunk_filename(p_hashes[p_idx])
            IN IF name \in DOMAIN out_chunks
               THEN PGoto("p_store") /\ UNCHANGED out_chunks
               ELSE \/ PExit("io_error") /\ UNCHANGED out_chunks
                    \/ /\ out_chunks' = Put(out_chunks, name,
                                            [data |-> Zstd(p_file.data), linked |-> FALSE])
                       /\ PGoto("p_store")

\* hard_link of the file to chunks/<hash>, and fs::copy when the link fails
\* (the name exists, or another file system).  A copy onto a link of the
\* source itself truncates it.
PkgStore ==
    /\ ppc = "p_store"
    /\ UNCHANGED not_server
    /\ UNCHANGED <<out_objects, out_pointer, out_tmp, p_args, p_hashes, p_manifest, p_runs>>
    /\ LET name == p_hashes[p_idx]
       IN \/ /\ name \notin DOMAIN out_chunks
             /\ out_chunks' = Put(out_chunks, name, [data |-> p_file.data, linked |-> TRUE])
             /\ p_idx' = p_idx + 1
             /\ PGoto("p_hash")
          \/ /\ out_chunks' = Put(out_chunks, name, [data |-> p_file.data, linked |-> FALSE])
             /\ p_idx' = p_idx + 1
             /\ PGoto("p_hash")
          \/ /\ name \in DOMAIN out_chunks
             /\ out_chunks[name].linked
             /\ out_chunks' = Put(out_chunks, name, [data |-> <<>>, linked |-> TRUE])
             /\ p_idx' = p_idx + 1
             /\ PGoto("p_hash")
          \/ /\ PExit("io_error")
             /\ UNCHANGED <<out_chunks, p_idx>>

\* The manifest text is generated (fs::metadata can fail).
PkgEmit ==
    /\ ppc = "p_emit"
    /\ UNCHANGED not_server
    /\ UNCHANGED <<output, p_args, p_idx, p_hashes, p_runs>>
    /\ \/ PExit("io_error") /\ UNCHANGED p_manifest
       \/ /\ p_manifest' = generate_manifest(p_args.compression, p_args.hash,
                                              p_args.files, p_hashes)
          /\ PGoto("p_object")

\* fs::write(manifest_path, manifest): the file is created or truncated ...
PkgObjectCreate ==
    /\ ppc = "p_object"
    /\ UNCHANGED not_server
    /\ UNCHANGED <<out_chunks, out_pointer, out_tmp, p_args, p_idx, p_hashes, p_manifest, p_runs>>
    /\ \/ PExit("io_error") /\ UNCHANGED out_objects
       \/ /\ out_objects' = Put(out_objects, ManifestDigest(p_manifest), <<>>)
          /\ PGoto("p_object_w")

\* ... and the text is written.
PkgObjectWrite ==
    /\ ppc = "p_object_w"
    /\ UNCHANGED not_server
    /\ UNCHANGED <<out_chunks, out_pointer, out_tmp, p_args, p_idx, p_hashes, p_manifest, p_runs>>
    /\ \/ PExit("io_error") /\ UNCHANGED out_objects
       \/ /\ out_objects' = Put(out_objects, ManifestDigest(p_manifest), p_manifest)
          /\ PGoto("p_tmp")

\* fs::write(&tmp_link_path, hash): created or truncated ...
PkgTmpCreate ==
    /\ ppc = "p_tmp"
    /\ UNCHANGED not_server
    /\ UNCHANGED <<out_chunks, out_objects, out_pointer, p_args, p_idx, p_hashes, p_manifest, p_runs>>
    /\ \/ PExit("io_error") /\ UNCHANGED out_tmp
       \/ /\ out_tmp' = Text(<<>>)
          /\ PGoto("p_tmp_w")

\* ... and the digest is written.
PkgTmpWrite ==
    /\ ppc = "p_tmp_w"
    /\ UNCHANGED not_server
    /\ UNCHANGED <<out_chunks, out_objects, out_pointer, p_args, p_idx, p_hashes, p_manifest, p_runs>>
    /\ \/ PExit("io_error") /\ UNCHANGED out_tmp
       \/ /\ out_tmp' = Text(ManifestDigest(p_manifest))
          /\ PGoto("p_pointer")

\* if !main_link_path.exists() { fs::write(&main_link_path, "") }
PkgPointerInit ==
    /\ ppc = "p_pointer"
    /\ UNCHANGED not_server
    /\ UNCHANGED <<out_chunks, out_objects, out_tmp, p_args, p_idx, p_hashes, p_manifest, p_runs>>
    /\ IF ~out_pointer.exists
       THEN \/ PExit("io_error") /\ UNCHANGED out_pointer
            \/ out_pointer' = Text(<<>>) /\ PGoto("p_exchange")
       ELSE UNCHANGED out_pointer /\ PGoto("p_exchange")

\* renameat2(manifest.tmp, manifest, RENAME_EXCHANGE)
PkgExchange ==
    /\ ppc = "p_exchange"
    /\ UNCHANGED not_server
    /\ UNCHANGED <<out_chunks, out_objects, p_args, p_idx, p_hashes, p_manifest, p_runs>>
    /\ \/ PExit("exchange_failed") /\ UNCHANGED <<out_pointer, out_tmp>>
       \/ /\ out_pointer' = out_tmp
          /\ out_tmp' = out_pointer
          /\ PGoto("p_remove")

\* fs::remove_file(&tmp_link_path)
PkgRemoveTmp ==
    /\ ppc = "p_remove"
    /\ UNCHANGED not_server
    /\ UNCHANGED <<out_chunks, out_objects, out_pointer, p_args, p_idx, p_hashes, p_manifest, p_runs>>
    /\ \/ PExit("io_error") /\ UNCHANGED out_tmp
       \/ /\ out_tmp' = NoText
          /\ PExit("published")

PackagerNext ==
    \/ PkgStart
    \/ PkgHash
    \/ PkgCompress
    \/ PkgStore
    \/ PkgEmit
    \/ PkgObjectCreate
    \/ PkgObjectWrite
    \/ PkgTmpCreate
    \/ PkgTmpWrite
    \/ PkgPointerInit
    \/ PkgExchange
    \/ PkgRemoveTmp

\* Packager runs, one after the other, on one output directory.
SpecPackager == Init /\ [][PackagerNext]_vars

(***************************************************************************)
(* Two updaters at once: the install loop's test and install_chunk, one    *)
(* system call a step.                                                     *)
(***************************************************************************)
\* The chunk both processes find next in their chunk lists; its manifest
\* names no hasher.
RaceChunk == Chunk(420, 0, <<"1", "4">>, "x")

Zeros(n) == [i \in 1..n |-> 0]

\* write at offset off of a file: the bytes before a write past the end read
\* as zero.
WriteAt(data, off, buf) ==
    IF off >= Len(data)
    THEN data \o Zeros(off - Len(data)) \o buf
    ELSE [i \in 1..Len(data) |-> IF i = off + 1 THEN buf[1] ELSE data[i]]

\* if !chunk_path.exists()
RaceCheck(p) ==
    /\ inst[p].pc = "check"
    /\ UNCHANGED not_race
    /\ UNCHANGED <<r_names, r_inodes>>
    /\ IF chunk_filename(RaceChunk) \in DOMAIN r_names
       THEN inst' = [inst EXCEPT ![p].pc = "done", ![p].result = "skipped"]
       ELSE inst' = [inst EXCEPT ![p].pc = "create"]

\* get, and File::create of <hash>.new: a new file, or the one of that name
\* truncated.
RaceCreate(p) ==
    /\ inst[p].pc = "create"
    /\ UNCHANGED not_race
    /\ \E s \in Streams :
         LET temp == temp_file_name(RaceChunk)
             fd == IF temp \in DOMAIN r_names THEN r_names[temp] ELSE Len(r_inodes) + 1
         IN /\ r_names' = Put(r_names, temp, fd)
            /\ r_inodes' = IF temp \in DOMAIN r_names
                           THEN [r_inodes EXCEPT ![fd].data = <<>>]
                           ELSE Append(r_inodes, [data |-> <<>>, mode |-> 0])
            /\ inst' = [inst EXCEPT ![p].pc = "read", ![p].fd = fd, ![p].off = 0,
                                    ![p].stream = s, ![p].hasher = HasherNew]

\* One turn of the read loop with n > 0: the hasher and the file, at the
\* position of the process's own descriptor.
RaceReadBlock(p) ==
    /\ inst[p].pc = "read"
    /\ inst[p].stream # <<>>
    /\ UNCHANGED not_race
    /\ UNCHANGED r_names
    /\ LET buf == <<Head(inst[p].stream)>>
       IN /\ r_inodes' = [r_inodes EXCEPT ![inst[p].fd].data = WriteAt(@, inst[p].off, buf)]
          /\ inst' = [inst EXCEPT ![p].stream = Tail(@), ![p].off = @ + 1,
                                  ![p].hasher = HasherWrite(@, buf)]

\* n == 0: the digest is compared; the permissions are set on the open file
\* and <hash>.new is renamed, which fails when the name is gone.
RaceInstallEnd(p) ==
    /\ inst[p].pc = "read"
    /\ inst[p].stream = <<>>
    /\ UNCHANGED not_race
    /\ LET temp == temp_file_name(RaceChunk)
       IN IF ~install_verified(RaceChunk, ResolveHasher(None), inst[p].hasher)
          THEN /\ inst' = [inst EXCEPT ![p].pc = "done", ![p].result = "integrity_error"]
               /\ UNCHANGED <<r_names, r_inodes>>
          ELSE /\ r_inodes' = [r_inodes EXCEPT ![inst[p].fd].mode =
                                                SetReadonly(RaceChunk.permissions)]
               /\ IF temp \in DOMAIN r_names
                  THEN /\ r_names' = Put(Remove(r_names, temp),
                                         chunk_filename(RaceChunk), r_names[temp])
                       /\ inst' = [inst EXCEPT ![p].pc = "done", ![p].result = "installed"]
                  ELSE /\ UNCHANGED r_names
                       /\ inst' = [inst EXCEPT ![p].pc = "done", ![p].result = "rename_failed"]

RaceNext ==
    \/ \E p \in Procs : RaceCheck(p)
    \/ \E p \in Procs : RaceCreate(p)
    \/ \E p \in Procs : RaceReadBlock(p)
    \/ \E p \in Procs : RaceInstallEnd(p)

SpecRace == Init /\ [][RaceNext]_vars

(***************************************************************************)
(* The manifest codec on its own: a text of chunk records given to         *)
(* parse_chunklist, and a manifest generated as the packager generates it  *)
(* given to parse_manifest.                                                *)
(***************************************************************************)
\* The tokens a line of the chunk segment is made of.
Tokens == {<<>>, <<"7">>, <<"h">>, <<"+", "1">>}

\* The lines of up to n tokens.
LinesOf(n) == {join(ts, <<";">>) : ts \in UNION {[1..k -> Tokens] : k \in 1..n}}

\* The texts given to parse_chunklist: one line, or two short lines.
ChunkTexts ==
    LinesOf(MaxTokens)
    \cup {l1 \o <<"\n">> \o l2 : l1 \in LinesOf(MaxTokens - 2), l2 \in LinesOf(MaxTokens - 2)}

\* The characters of a file name under input_path, and the paths made of them.
PathChars == {"a", ";", "\n"}
Paths == UNION {[1..n -> PathChars] : n \in 1..MaxPathLen}

\* The input trees: one file, or two files of different paths.
CodecTrees ==
    {<<InputFile(path, data, 33188)>> : path \in Paths, data \in {<<1>>, <<4>>}}
    \cup {<<InputFile(<<"a">>, <<1>>, 33261), InputFile(path, <<1>>, 33188)>> :
            path \in Paths \ {<<"a">>}}

\* The hashes hash_file gives for the files, in their order.
file_hashes(hash, files) == [i \in 1..Len(files) |-> HasherDigest(hash, files[i].data)]

CodecChooseText ==
    /\ c_pc = "idle"
    /\ UNCHANGED not_codec
    /\ c_text' \in ChunkTexts
    /\ c_pc' = "chunklist"
    /\ UNCHANGED <<c_job, c_result>>

CodecParseChunklist ==
    /\ c_pc = "chunklist"
    /\ UNCHANGED not_codec
    /\ c_result' = [ok |-> parse_chunklist(c_text).ok,
                    headers |-> EmptyFiles,
                    chunks |-> parse_chunklist(c_text).chunks]
    /\ c_pc' = "chunklist_parsed"
    /\ UNCHANGED <<c_job, c_text>>

CodecChooseFiles ==
    /\ c_pc = "idle"
    /\ UNCHANGED not_codec
    /\ \E h \in HashTypes, c \in Compressions, files \in CodecTrees :
         c_job' = [hash |-> h, compression |-> c, files |-> files]
    /\ c_pc' = "generate"
    /\ UNCHANGED <<c_text, c_result>>

CodecGenerate ==
    /\ c_pc = "generate"
    /\ UNCHANGED not_codec
    /\ c_text' = generate_manifest(c_job.compression, c_job.hash, c_job.files,
                                   file_hashes(c_job.hash, c_job.files))
    /\ c_pc' = "manifest"
    /\ UNCHANGED <<c_job, c_result>>

\* The lines of a manifest text: a blank line, the divider, headers with and
\* without the characters of the divider in their value, a chunk record, and
\* a line of four dashes.
ManifestLines ==
    {<<>>,
     <<"-", "-", "-">>,
     <<"K", ":", "v">>,
     <<"K", ":", "a", "-", "-", "-", "b">>,
     <<"7", ";", "7", ";", "h", ";", "p">>,
     <<"-", "-", "-", "-">>}

\* The texts given to parse_manifest: up to MaxManifestLines lines.
ManifestTexts ==
    {join(ls, <<"\n">>) : ls \in UNION {[1..n -> ManifestLines] : n \in 1..MaxManifestLines}}

CodecChooseManifest ==
    /\ c_pc = "idle"
    /\ UNCHANGED not_codec
    /\ c_text' \in ManifestTexts
    /\ c_pc' = "raw_manifest"
    /\ UNCHANGED <<c_job, c_result>>

\* parse_manifest, of a generated text or of a text as it stands.
CodecParseManifest ==
    /\ c_pc \in {"manifest", "raw_manifest"}
    /\ UNCHANGED not_codec
    /\ c_result' = parse_manifest(c_text)
    /\ c_pc' = IF c_pc = "manifest" THEN "manifest_parsed" ELSE "raw_manifest_parsed"
    /\ UNCHANGED <<c_job, c_text>>

\* The characters of a header segment, and its lines of up to n characters.
HeaderChars == {"K", ":", " "}
HeaderLinesOf(n) == UNION {[1..k -> HeaderChars] : k \in 0..n}

\* The texts given to parse_headers: one line, or two lines.
HeaderTexts ==
    HeaderLinesOf(MaxHeaderLen)
    \cup {l1 \o <<"\n">> \o l2 : l1 \in HeaderLinesOf(MaxHeaderLen), l2 \in HeaderLinesOf(MaxHeaderLen)}

CodecChooseHeaders ==
    /\ c_pc = "idle"
    /\ UNCHANGED not_codec
    /\ c_text' \in HeaderTexts
    /\ c_pc' = "headers"
    /\ UNCHANGED <<c_job, c_result>>

CodecParseHeaders ==
    /\ c_pc = "headers"
    /\ UNCHANGED not_codec
    /\ c_result' = [ok |-> TRUE, headers |-> parse_headers(c_text), chunks |-> <<>>]
    /\ c_pc' = "headers_parsed"
    /\ UNCHANGED <<c_job, c_text>>

CodecNext ==
    \/ CodecChooseText
    \/ CodecChooseHeaders
    \/ CodecChooseManifest
    \/ CodecParseHeaders
    \/ CodecParseChunklist
    \/ CodecChooseFiles
    \/ CodecGenerate
    \/ CodecParseManifest

SpecCodec == Init /\ [][CodecNext]_vars

(***************************************************************************)
(* build_tree on a file system with directories.  A path is a sequence of  *)
(* components, each a sequence of characters; the file system maps the     *)
(* absolute paths that exist, without '..', to what is there.  The root    *)
(* path of the updater is "/".                                             *)
(***************************************************************************)
DotDot == <<".", ".">>

Dir == [dir |-> TRUE, data |-> <<>>, mode |-> 0]
File(data, mode) == [dir |-> FALSE, data |-> data, mode |-> mode]

StagingPath == <<<<".pkgsmgr">>, <<"staging">>>>
ChunkstorePath == <<<<".pkgsmgr">>, <<"chunkstore">>>>

\* Path::starts_with
Under(path, base) ==
    Len(path) >= Len(base) /\ SubSeq(path, 1, Len(base)) = base

\* Path::join: an absolute path replaces the base.
path_join(base, p) == IF p.abs THEN p.comps ELSE base \o p.comps

\* path.parent().unwrap_or_else(|| Path::new("/"))
parent(p) == IF p = <<>> THEN <<>> ELSE SubSeq(p, 1, Len(p) - 1)

\* The directory reached from "at" through the components, as the system
\* resolves them: '..' is the directory above, a name is an entry that has to
\* be a directory.
RECURSIVE Walk(_, _, _)
Walk(fs, comps, at) ==
    IF comps = <<>> THEN [ok |-> TRUE, at |-> at, kind |-> "none"]
    ELSE LET next == IF Head(comps) = DotDot THEN parent(at) ELSE Append(at, Head(comps))
         IN IF next \notin DOMAIN fs THEN [ok |-> FALSE, at |-> at, kind |-> "NotFound"]
            ELSE IF ~fs[next].dir THEN [ok |-> FALSE, at |-> at, kind |-> "NotADirectory"]
            ELSE Walk(fs, Tail(comps), next)

\* The place a path names, which may hold nothing yet.
Lookup(fs, p) ==
    IF p = <<>> THEN [ok |-> TRUE, at |-> <<>>, kind |-> "none"]
    ELSE LET above == Walk(fs, SubSeq(p, 1, Len(p) - 1), <<>>)
             last == p[Len(p)]
         IN IF ~above.ok THEN above
            ELSE [ok |-> TRUE,
                  at |-> IF last = DotDot THEN parent(above.at) ELSE Append(above.at, last),
                  kind |-> "none"]

\* Path::exists and Path::is_dir
exists(fs, p) == Lookup(fs, p).ok /\ Lookup(fs, p).at \in DOMAIN fs
is_dir(fs, p) == exists(fs, p) /\ fs[Lookup(fs, p).at].dir

\* mkdir(2)
mkdir(fs, p) ==
    LET r == Lookup(fs, p)
    IN IF ~r.ok THEN [ok |-> FALSE, kind |-> r.kind, fs |-> fs]
       ELSE IF r.at \in DOMAIN fs THEN [ok |-> FALSE, kind |-> "AlreadyExists", fs |-> fs]
       ELSE [ok |-> TRUE, kind |-> "none", fs |-> Put(fs, r.at, Dir)]

\* fs::create_dir_all: mkdir; when a directory above is missing, the same for
\* the parent and mkdir again; an error is no error when the path is a
\* directory.
RECURSIVE create_dir_all(_, _)
create_dir_all(fs, p) ==
    LET first == mkdir(fs, p)
    IN IF first.ok THEN [ok |-> TRUE, fs |-> first.fs]
       ELSE IF first.kind # "NotFound" THEN [ok |-> is_dir(fs, p), fs |-> fs]
       ELSE IF p = <<>> THEN [ok |-> FALSE, fs |-> fs]
       ELSE LET up == create_dir_all(fs, SubSeq(p, 1, Len(p) - 1))
            IN IF ~up.ok THEN up
               ELSE LET second == mkdir(up.fs, p)
                    IN IF second.ok THEN [ok |-> TRUE, fs |-> second.fs]
                       ELSE [ok |-> is_dir(up.fs, p), fs |-> up.fs]

\* fs::hard_link: the original has to be a file and the link's place free.
hard_link(fs, original, link) ==
    LET src == Lookup(fs, original)
        dst == Lookup(fs, link)
    IN IF \/ ~src.ok
          \/ src.at \notin DOMAIN fs
          \/ fs[src.at].dir
          \/ ~dst.ok
          \/ dst.at \in DOMAIN fs
       THEN [ok |-> FALSE, fs |-> fs]
       ELSE [ok |-> TRUE, fs |-> Put(fs, dst.at, fs[src.at])]

\* fs::remove_dir_all
remove_dir_all(fs, p) == [q \in {q \in DOMAIN fs : ~Under(q, p)} |-> fs[q]]

\* The chunk of every record: its object is in the chunk store.
TreeChunk(p) == Chunk(420, 1, <<"1">>, p)

\* The file system build_tree is called on: the chunk store with the object,
\* a file outside .pkgsmgr, and (prior) a staging directory left by an
\* earlier run.
TreeFs(prior) ==
    LET folders == {<<>>, <<<<".pkgsmgr">>>>, ChunkstorePath, <<<<"usr">>>>}
                   \cup (IF prior THEN {StagingPath} ELSE {})
        object == Append(ChunkstorePath, chunk_filename(TreeChunk(<<>>)))
        usr_file == <<<<"usr">>, <<"a">>>>
        left == Append(StagingPath, <<"a">>)
        all == folders \cup {object, usr_file} \cup (IF prior THEN {left} ELSE {})
    IN [q \in all |->
          IF q \in folders THEN Dir
          ELSE IF q = object THEN File(<<1>>, 292)
          ELSE File(<<4>>, 420)]

\* The components of a chunk path, and the chunk paths: relative or absolute,
\* of up to MaxComps components.
CompNames == {<<"a">>, <<"usr">>, DotDot}
TreePaths ==
    {[abs |-> b, comps |-> cs] :
        b \in BOOLEAN, cs \in UNION {[1..n -> CompNames] : n \in 0..MaxComps}}

\* The chunk lists given to build_tree: one chunk or two.
TreeChunkLists ==
    {<<TreeChunk(p)>> : p \in TreePaths}
    \cup {<<TreeChunk(p1), TreeChunk(p2)>> : p1 \in TreePaths, p2 \in TreePaths}

TreeStart ==
    /\ t_pc = "idle"
    /\ UNCHANGED not_tree
    /\ \E prior \in BOOLEAN : t_fs' = TreeFs(prior)
    /\ t_before' = t_fs'
    /\ t_chunks' \in TreeChunkLists
    /\ t_pc' = "clear"
    /\ UNCHANGED <<t_idx, t_result>>

\* The staging directory is removed when it exists, and created.
TreeClear ==
    /\ t_pc = "clear"
    /\ UNCHANGED not_tree
    /\ LET cleared == IF exists(t_fs, StagingPath)
                      THEN remove_dir_all(t_fs, StagingPath)
                      ELSE t_fs
           made == create_dir_all(cleared, StagingPath)
       IN /\ t_fs' = made.fs
          /\ IF made.ok
             THEN t_pc' = "link" /\ t_idx' = 1 /\ t_result' = t_result
             ELSE t_pc' = "done" /\ t_idx' = t_idx /\ t_result' = "err"
    /\ UNCHANGED <<t_before, t_chunks>>

\* One turn of the loop: the parent of the joined path is created when it
\* does not exist, and the store object is linked at the joined path.
TreeLink ==
    /\ t_pc = "link"
    /\ t_idx <= Len(t_chunks)
    /\ UNCHANGED not_tree
    /\ LET c == t_chunks[t_idx]
           joined == path_join(StagingPath, c.path)
           parent_path == parent(joined)
           made == IF exists(t_fs, parent_path)
                   THEN [ok |-> TRUE, fs |-> t_fs]
                   ELSE create_dir_all(t_fs, parent_path)
           linked == hard_link(made.fs, Append(ChunkstorePath, chunk_filename(c)), joined)
       IN IF made.ok /\ linked.ok
          THEN /\ t_fs' = linked.fs
               /\ t_idx' = t_idx + 1
               /\ UNCHANGED <<t_pc, t_result>>
          ELSE /\ t_fs' = made.fs
               /\ t_pc' = "done"
               /\ t_result' = "err"
               /\ UNCHANGED t_idx
    /\ UNCHANGED <<t_before, t_chunks>>

\* Ok(()) after the last chunk.
TreeReturn ==
    /\ t_pc = "link"
    /\ t_idx > Len(t_chunks)
    /\ UNCHANGED not_tree
    /\ t_pc' = "done"
    /\ t_result' = "ok"
    /\ UNCHANGED <<t_fs, t_before, t_chunks, t_idx>>

TreeNext ==
    \/ TreeStart
    \/ TreeClear
    \/ TreeLink
    \/ TreeReturn

SpecTree == Init /\ [][TreeNext]_vars

(***************************************************************************)
(* Properties.                                                             *)
(***************************************************************************)
\* The store keys a persisted manifest text refers to.
KeysOf(m) ==
    IF m = None THEN {}
    ELSE {chunk_filename(Parsed(m).chunks[i]) : i \in 1..Len(Parsed(m).chunks)}

RECURSIVE SizeSum(_, _)
SizeSum(files, names) ==
    IF names = {} THEN 0
    ELSE LET n == CHOOSE x \in names : TRUE
         IN Len(files[n].data) + SizeSum(files, names \ {n})

\* The step in which clean_old_chunks runs and returns.
GcStep == pc = "u_gc" /\ gc_ran'

\* C1: after any sequence of updater runs (completed, failed or stopped at any
\* step) and rollback runs, every store key the persisted current or old
\* manifest refers to is in the chunk store, in particular whenever
\* clean_old_chunks has returned; and clean_old_chunks removes no entry
\* either of them refers to.
C1_RetainedChunksPresent ==
    /\ [](KeysOf(current) \cup KeysOf(old) \subseteq DOMAIN chunkstore)
    /\ [][GcStep =>
            \A n \in DOMAIN chunkstore \cap (KeysOf(current) \cup KeysOf(old)) :
                n \in DOMAIN chunkstore' /\ chunkstore'[n] = chunkstore[n]]_vars

\* A collection has removed a store object while two generations are kept.
C1_Witness ==
    /\ gc_ran
    /\ current # None
    /\ old # None
    /\ <<"1", "4", "2", "0">> \notin DOMAIN chunkstore
    /\ KeysOf(current) \cup KeysOf(old) # {}

\* C2: clean_old_chunks removes every store entry whose name is not a key of
\* current or old (either may be missing), leaves the others as they are, and
\* returns the sum of the sizes of the entries it removed.
C2_GcRemovesUnreferenced ==
    [][GcStep =>
        LET keep == KeysOf(current) \cup KeysOf(old)
            removed == DOMAIN chunkstore \ keep
        IN /\ DOMAIN chunkstore' = DOMAIN chunkstore \cap keep
           /\ \A n \in DOMAIN chunkstore' : chunkstore'[n] = chunkstore[n]
           /\ freed' = SizeSum(chunkstore, removed)]_vars

\* A collection has removed more than one entry.
C2_Witness == gc_ran /\ freed >= 3 /\ old # None

\* C3: update_manifest(new_text) with no current writes new_text as current
\* and returns true; with a current equal to new_text it returns false and
\* leaves current and old alone; otherwise the previous current becomes old,
\* new_text becomes current and it returns true.  After a call that returned,
\* current is new_text, so a second call with the same text is the second case.
C3_UpdateManifest ==
    [][(pc = "u_commit" /\ (pc' = "u_build" \/ (pc' = "idle" /\ outcome' = "unchanged"))) =>
        /\ current = None =>
             current' = manifest_raw /\ old' = old /\ pc' = "u_build"
        /\ current = manifest_raw =>
             current' = current /\ old' = old /\ pc' = "idle"
        /\ current \notin {None, manifest_raw} =>
             current' = manifest_raw /\ old' = current /\ pc' = "u_build"
        /\ current' = manifest_raw]_vars

\* A second call with the text that is current has reported no change, with
\* an old generation in place.
C3_Witness ==
    pc = "idle" /\ outcome = "unchanged" /\ current = manifest_raw /\ old # None

\* What the claim on the version gate asks to be refused.
MustRefuse(parts) ==
    /\ parts # <<>>
    /\ \/ parts[1] > MAJOR_VERSION
       \/ /\ parts[1] = MAJOR_VERSION
          /\ Len(parts) >= 2
          /\ parts[2] > MINOR_VERSION

\* C4: the updater refuses a manifest exactly when its MinVersion M.m has
\* M > major, or M = major and m > minor; an update that is past the gate
\* was not to be refused, and one the gate has stopped was to be refused.
C4_VersionGate ==
    /\ pc \in {"u_install", "u_read", "u_commit", "u_build", "u_swap", "u_gc"} =>
         ~MustRefuse(Parsed(manifest_raw).MinVersion)
    /\ (pc = "idle" /\ outcome \in {"major", "minor"}) =>
         MustRefuse(Parsed(manifest_raw).MinVersion)

IsTempName(n) == n[Len(n)] = ".new"

\* Some manifest lists a chunk with store key n whose hash, under the
\* manifest's hasher, is the digest of the file's data, and whose mode (made
\* read-only) is the file's mode.
VerifiedObject(n, file) ==
    \E m \in ManifestIds : \E i \in 1..Len(Parsed(m).chunks) :
        LET c == Parsed(m).chunks[i]
        IN /\ chunk_filename(c) = n
           /\ HasherDigest(ResolveHasher(Parsed(m).Hasher), file.data) = c.hash
           /\ file.mode = SetReadonly(c.permissions)

\* C5: a file is at a content-addressed name of the chunk store only when its
\* complete data has the digest declared for a chunk of that name; it gets
\* there only by the rename at the end of install_chunk, after the digest over
\* the whole received stream equalled the chunk's hash; and an install whose
\* stream has another digest fails and leaves no file at the chunk's name.
C5_OnlyVerifiedAtFinalName ==
    /\ [](\A n \in DOMAIN chunkstore :
            ~IsTempName(n) => VerifiedObject(n, chunkstore[n]))
    /\ []((pc = "idle" /\ outcome = "integrity_error") =>
            chunk_filename(chunk) \notin DOMAIN chunkstore)
    /\ [][\A n \in DOMAIN chunkstore' :
            (~IsTempName(n) /\ (n \notin DOMAIN chunkstore \/ chunkstore'[n] # chunkstore[n]))
            => /\ pc = "u_read"
               /\ stream = <<>>
               /\ n = chunk_filename(chunk)
               /\ HasherDigest(hash_method, hasher) = chunk.hash
               /\ chunkstore'[n].data = hasher]_vars

\* An install has failed on its digest while another chunk's verified object
\* is in the store.
C5_Witness ==
    /\ pc = "idle"
    /\ outcome = "integrity_error"
    /\ \E n \in DOMAIN chunkstore : ~IsTempName(n)

\* C6: after install_chunk has found a digest mismatch, the chunk store holds
\* no file of that install, neither at the chunk's final name nor at its
\* temporary name.
C6_TempDiscardedOnMismatch ==
    (pc = "idle" /\ outcome = "integrity_error") =>
        /\ chunk_filename(chunk) \notin DOMAIN chunkstore
        /\ temp_file_name(chunk) \notin DOMAIN chunkstore

\* The first step of a rollback process.
RollbackStarts == pc = "idle" /\ runs' = runs + 1 /\ ~fetched'

InRollback == pc \in {"r_commit", "r_build", "r_swap"}

\* The files are exactly the paths of manifest m, each the store object of its
\* chunk's key.
TreeOf(files, m) ==
    LET chunks == Chunklist(m)
    IN /\ DOMAIN files = {chunks[i].path : i \in 1..Len(chunks)}
       /\ \A i \in 1..Len(chunks) :
            /\ chunk_filename(chunks[i]) \in DOMAIN chunkstore
            /\ files[chunks[i].path] = chunkstore[chunk_filename(chunks[i])]

\* C7: a rollback that starts with an old generation reads that text; when it
\* succeeds, current is that text and the live root holds exactly the paths of
\* that manifest, each linked to the store object of its key; the rollback
\* makes no network request and leaves the chunk store as it found it.
C7_RollbackRestoresOld ==
    /\ [][(RollbackStarts /\ old # None) => manifest_raw' = old]_vars
    /\ [][InRollback => chunkstore' = chunkstore]_vars
    /\ []((pc = "idle" /\ outcome = "rolled_back") =>
            /\ current = manifest_raw
            /\ ~fetched
            /\ usr.exists
            /\ TreeOf(usr.files, manifest_raw))

\* A rollback to a manifest of two paths has succeeded.
C7_Witness ==
    /\ pc = "idle"
    /\ outcome = "rolled_back"
    /\ Len(Chunklist(manifest_raw)) = 2
    /\ DOMAIN usr.files = {"x", "y"}

C9_NoRollbackAvailable ==
    /\ [][(RollbackStarts /\ old = None) =>
            /\ pc' = "idle"
            /\ outcome' = "no_rollback"
            /\ UNCHANGED <<current, old, chunkstore, staging, usr>>]_vars
    /\ [][outcome' = "no_rollback" =>
            outcome = "no_rollback" \/ (RollbackStarts /\ old = None)]_vars

\* A rollback has been refused on a root that holds an installed generation.
C9_Witness ==
    /\ pc = "idle"
    /\ outcome = "no_rollback"
    /\ current # None
    /\ usr.exists
    /\ chunkstore # EmptyFiles

\* C10: clean_old_chunks runs only in an updater run and only after that
\* run's exchange of staging and live root has succeeded; no rollback run
\* runs it.
C10_GcOnlyAfterSwap ==
    /\ gc_ran => (swapped /\ fetched)
    /\ pc = "u_gc" => swapped
    /\ InRollback => ~gc_ran
    /\ (pc = "idle" /\ outcome = "rolled_back") => ~gc_ran

\* An updater run has swapped and then collected.
C10_Witness == pc = "idle" /\ outcome = "updated" /\ gc_ran /\ swapped /\ freed > 0

\* The steps of an updater run before its update_manifest call: the start,
\* the manifest fetch, the headers and the install loop.
BeforeCommit ==
    \/ pc \in {"u_manifest", "u_headers", "u_install", "u_read"}
    \/ pc = "idle" /\ fetched'

AllInstalled(m) == KeysOf(m) \subseteq DOMAIN chunkstore

\* C11 as stated: while the updater installs a chunk, update_manifest has
\* already run in that run, so the run's manifest is the current generation.
C11_CommitBeforeInstall == pc = "u_read" => current = manifest_raw

\* C11 amended: update_manifest runs after the install loop of the run has
\* ended with every chunk of the manifest in the store, and before the run's
\* staging tree build; no step before it changes current, old or staging, and
\* no install follows it.
C11_CommitAfterInstalls ==
    /\ [](pc = "u_commit" =>
            /\ idx = Len(Chunklist(manifest_raw)) + 1
            /\ AllInstalled(manifest_raw))
    /\ [][BeforeCommit => UNCHANGED <<current, old, staging>>]_vars
    /\ [][(pc' \in {"u_build", "u_swap", "u_gc"} /\ pc' # pc) =>
            pc \in {"u_commit", "u_build", "u_swap"}]_vars
    /\ [](pc \in {"u_build", "u_swap", "u_gc"} => current = manifest_raw)
    /\ [][(pc \in {"u_commit", "u_build", "u_swap", "u_gc"}) =>
            pc' \notin {"u_install", "u_read"}]_vars

\* A run has installed a chunk, then committed its manifest over another
\* generation, and is about to build the tree.
C11_Witness ==
    /\ pc = "u_build"
    /\ current = manifest_raw
    /\ old \notin {None, current}
    /\ KeysOf(current) # KeysOf(old)
    /\ ~TreeOf(usr.files, current)

C13_RerunCompletesApply ==
    (/\ pc = "idle"
     /\ outcome = "unchanged"
     /\ staging.exists
     /\ TreeOf(staging.files, current))
    => (usr.exists /\ TreeOf(usr.files, current))

\* The content-addressed names of a chunk store.
FinalNames(files) == {n \in DOMAIN files : ~IsTempName(n)}

\* A fetch of a chunk object starts / an install ends with its rename.
FetchStarts == pc = "u_install" /\ pc' = "u_read"
InstallDone == pc = "u_read" /\ pc' = "u_install"

\* C18: the updater starts a fetch only for a chunk whose store key is absent,
\* and the install that follows adds exactly the object of that key, so a key
\* is fetched at most once in a run and every key of the manifest is present
\* when the loop ends; records with the same hash and permissions have one
\* store key, and their paths in the built tree are links to that one object;
\* records with the same hash and different permissions have different keys.
C18_OneObjectPerKey ==
    /\ [][FetchStarts => chunk_filename(chunk) \notin DOMAIN chunkstore]_vars
    /\ [][InstallDone =>
            /\ chunk_filename(chunk) \notin DOMAIN chunkstore
            /\ FinalNames(chunkstore') = FinalNames(chunkstore) \cup {chunk_filename(chunk)}
            /\ \A n \in FinalNames(chunkstore) : chunkstore'[n] = chunkstore[n]]_vars
    /\ [][(pc = "u_install" /\ pc' = "u_install") =>
            chunk_filename(chunk) \in DOMAIN chunkstore /\ chunkstore' = chunkstore]_vars
    /\ [](pc = "u_commit" => AllInstalled(manifest_raw))
    /\ [](pc = "u_swap" =>
            \A i, j \in 1..Len(Chunklist(manifest_raw)) :
                LET a == Chunklist(manifest_raw)[i]
                    b == Chunklist(manifest_raw)[j]
                IN (a.hash = b.hash /\ a.permissions = b.permissions) =>
                     /\ chunk_filename(a) = chunk_filename(b)
                     /\ staging.files[a.path] = chunkstore[chunk_filename(a)]
                     /\ staging.files[b.path] = chunkstore[chunk_filename(a)])
    /\ [](\A m1, m2 \in {current, old} \ {None} :
            \A i \in 1..Len(Chunklist(m1)) : \A j \in 1..Len(Chunklist(m2)) :
                LET a == Chunklist(m1)[i]
                    b == Chunklist(m2)[j]
                IN (a.hash = b.hash /\ a.permissions # b.permissions) =>
                     /\ chunk_filename(a) # chunk_filename(b)
                     /\ {chunk_filename(a), chunk_filename(b)} \subseteq DOMAIN chunkstore
                     /\ chunkstore[chunk_filename(a)].mode # chunkstore[chunk_filename(b)].mode)

\* Two records of one hash and one mode are live as links to one object, and
\* the store also holds the object of the same hash with another mode.
C18_Witness ==
    /\ pc = "idle"
    /\ outcome = "updated"
    /\ current = "mA"
    /\ old = "mC"
    /\ DOMAIN usr.files = {"x", "y"}
    /\ usr.files["x"] = usr.files["y"]
    /\ FinalNames(chunkstore) = {<<"1", "4", "2", "0">>, <<"1", "4", "9", "3">>}

\* The pointer holds a complete digest.
PointerNamesDigest == out_pointer.exists /\ out_pointer.text # <<>>

\* C14: during packager runs, the first one on an empty output directory
\* included, the pointer is never empty or partial and never disappears; it
\* changes only in the exchange, to the complete digest of the run's manifest;
\* and after a run that published, the temporary file is gone.
C14_AtomicPublish ==
    /\ [](out_pointer # Text(<<>>))
    /\ [][out_pointer' # out_pointer =>
            /\ ppc = "p_exchange"
            /\ out_pointer' = Text(ManifestDigest(p_manifest))]_vars
    /\ [][out_pointer.exists => out_pointer'.exists]_vars
    /\ []((ppc = "idle" /\ p_outcome = "published") => ~out_tmp.exists)

\* The chunk objects a manifest text refers to are under chunks/.
ChunksPublished(text) ==
    LET m == parse_manifest(text)
    IN /\ m.ok
       /\ \A i \in 1..Len(m.chunks) : m.chunks[i].hash \in DOMAIN out_chunks

\* C15: whenever the pointer names a digest, the manifest object of that name
\* holds the complete text of that digest and every chunk object the text
\* refers to is under chunks/; and the steps of the loop over the files
\* (hashing, compressing, storing), a failure of one of them included, write
\* no manifest object and leave the pointer alone.
C15_PublicationOrder ==
    /\ [](PointerNamesDigest =>
            /\ out_pointer.text \in DOMAIN out_objects
            /\ ManifestDigest(out_objects[out_pointer.text]) = out_pointer.text
            /\ ChunksPublished(out_objects[out_pointer.text]))
    /\ [][(ppc \in {"p_hash", "p_compress", "p_store"}) =>
            UNCHANGED <<out_objects, out_pointer>>]_vars

\* The chunk records a run over these files has to publish.
ExpectedChunks(files, hash) ==
    [i \in 1..Len(files) |->
        Chunk(files[i].mode, Len(files[i].data) \div 1024,
              HasherDigest(hash, files[i].data), files[i].path)]

\* C16: a packager run that meets no I/O error, whatever the compression and
\* the hash selected, ends having published: the pointer names the run's
\* manifest, which carries the selected headers and one chunk record for each
\* file discovered, in that order, and each file's chunk is under chunks/.
C16_RunCompletes ==
    (ppc = "idle" /\ p_outcome \notin {"none", "io_error", "exchange_failed"}) =>
        /\ p_outcome = "published"
        /\ PointerNamesDigest
        /\ out_pointer.text \in DOMAIN out_objects
        /\ LET m == parse_manifest(out_objects[out_pointer.text])
           IN /\ m.ok
              /\ m.chunks = ExpectedChunks(p_args.files, p_args.hash)
              /\ m.headers[<<"H", "a", "s", "h", "e", "r">>] = IF p_args.hash = "blake3" THEN <<"b", "l", "a", "k", "e", "3">> ELSE <<"x", "x", "h", "3", "_", "1", "2", "8">>
              /\ (<<"C", "o", "m", "p", "r", "e", "s", "s", "i", "o", "n">> \in DOMAIN m.headers) = (p_args.compression = "zstd")
        /\ \A i \in 1..Len(p_args.files) :
              HasherDigest(p_args.hash, p_args.files[i].data) \in DOMAIN out_chunks

\* The data a verified object of the chunk both processes install has.
RaceChunkData == <<1, 4>>

\* C17: when two install_chunk executions for one chunk interleave on one
\* chunk store, the file under the chunk's content-addressed name always has
\* exactly the chunk's verified bytes, and a process that did not skip and
\* whose stream was the chunk's data ends with the chunk installed.
C17_ConcurrentInstalls ==
    /\ chunk_filename(RaceChunk) \in DOMAIN r_names =>
         r_inodes[r_names[chunk_filename(RaceChunk)]].data = RaceChunkData
    /\ \A p \in Procs :
         (inst[p].pc = "done" /\ inst[p].hasher = RaceChunkData) =>
             inst[p].result = "installed"

\* The header mapping a generated manifest is to decode to.
ExpectedHeaders(compression, hash) ==
    LET hasher_value == IF hash = "blake3" THEN <<"b", "l", "a", "k", "e", "3">> ELSE <<"x", "x", "h", "3", "_", "1", "2", "8">>
        with_hasher == Put(EmptyFiles, <<"H", "a", "s", "h", "e", "r">>, hasher_value)
    IN IF compression = "zstd"
       THEN Put(with_hasher, <<"C", "o", "m", "p", "r", "e", "s", "s", "i", "o", "n">>, <<"z", "s", "t", "d">>)
       ELSE with_hasher

Numeric(token) ==
    LET digits == IF token # <<>> /\ token[1] = "+" THEN Tail(token) ELSE token
    IN /\ digits # <<>>
       /\ \A i \in 1..Len(digits) : digits[i] \in {DigitChar[v] : v \in 1..10}

NumberOf(token) ==
    DigitsValue(IF token[1] = "+" THEN Tail(token) ELSE token, 0)

\* The lines of the text that have three tokens or more, in their order.
RecordLines(text) == SelectSeq(lines(text), LAMBDA l : Len(split(l, <<";">>)) >= 3)

\* What is left of a record line after its first three tokens and their
\* separators.
PathOf(line) ==
    LET ts == split(line, <<";">>)
    IN SubSeq(line, Len(ts[1]) + Len(ts[2]) + Len(ts[3]) + 4, Len(line))

\* C20: parse_chunklist gives no chunk and no error for a line of fewer than
\* three tokens; it fails when a line of three tokens or more has a first or
\* second token that is no number; otherwise it gives, in the order of the
\* lines, one chunk for each line of three tokens or more, with the first two
\* tokens as permissions and size, the third as hash and everything after the
\* third separator, further separators included, as path.
C20_ParseChunklist ==
    c_pc = "chunklist_parsed" =>
        LET records == RecordLines(c_text)
            fatal == \E k \in 1..Len(records) :
                        LET ts == split(records[k], <<";">>)
                        IN ~Numeric(ts[1]) \/ ~Numeric(ts[2])
        IN IF fatal THEN ~c_result.ok
           ELSE /\ c_result.ok
                /\ Len(c_result.chunks) = Len(records)
                /\ \A k \in 1..Len(records) :
                     LET ts == split(records[k], <<";">>)
                     IN c_result.chunks[k] =
                          Chunk(NumberOf(ts[1]), NumberOf(ts[2]), ts[3], PathOf(records[k]))

\* A line of five tokens has given a chunk whose path holds a separator.
C20_Witness ==
    /\ c_pc = "chunklist_parsed"
    /\ c_result.ok
    /\ Len(c_result.chunks) = 1
    /\ c_result.chunks[1].path = <<"h", ";", "7">>
    /\ c_result.chunks[1].permissions = 1

\* The place of the first ':' of a line, 0 when it has none.
ColonAt(line) ==
    LET at == {i \in 1..Len(line) : line[i] = ":"}
    IN IF at = {} THEN 0 ELSE CHOOSE i \in at : \A j \in at : i <= j

\* A text without the whitespace at its two ends.
Trimmed(text) ==
    LET solid == {i \in 1..Len(text) : text[i] \notin {" ", "\n", "\t"}}
    IN IF solid = {} THEN <<>>
       ELSE SubSeq(text, CHOOSE i \in solid : \A j \in solid : i <= j,
                         CHOOSE i \in solid : \A j \in solid : i >= j)

KeyOf(line) == SubSeq(line, 1, ColonAt(line) - 1)
ValueOf(line) == Trimmed(SubSeq(line, ColonAt(line) + 1, Len(line)))

\* C21: parse_headers returns a mapping whose keys are the texts before the
\* first ':' of the lines that have one; the value of a key is the rest,
\* trimmed, of the last line with that key; lines without ':' (blank lines
\* among them) add nothing, so the mapping has as many entries as the lines
\* have distinct keys.
C21_ParseHeaders ==
    c_pc = "headers_parsed" =>
        LET ls == lines(c_text)
            entries == {i \in 1..Len(ls) : ColonAt(ls[i]) # 0}
        IN /\ DOMAIN c_result.headers = {KeyOf(ls[i]) : i \in entries}
           /\ \A i \in entries :
                (\A j \in entries : j > i => KeyOf(ls[j]) # KeyOf(ls[i])) =>
                    c_result.headers[KeyOf(ls[i])] = ValueOf(ls[i])
           /\ Cardinality(DOMAIN c_result.headers)
                = Cardinality({KeyOf(ls[i]) : i \in entries})

\* Two lines with the key "K" have been parsed: the mapping has the one entry
\* and its value is the trimmed value of the second line.
C21_Witness ==
    /\ c_pc = "headers_parsed"
    /\ c_text = <<"K", ":", "K", "K", "\n", "K", ":", " ", "K">>
    /\ DOMAIN c_result.headers = {<<"K">>}
    /\ c_result.headers[<<"K">>] = <<"K">>

\* The lines of a text that are the divider: exactly '---'.
DividerLines(text) ==
    LET ls == split(text, <<"\n">>)
    IN {i \in 1..Len(ls) : ls[i] = <<"-", "-", "-">>}

\* C22: parse_manifest rejects a text that has no line that is exactly '---';
\* for a text that has one it returns the headers of the lines before the
\* first such line and the chunks of the lines after it, so that '---' inside
\* a longer line is part of that line.
C22_DividerLine ==
    c_pc = "raw_manifest_parsed" =>
        LET ls == split(c_text, <<"\n">>)
            at == DividerLines(c_text)
        IN IF at = {} THEN ~c_result.ok
           ELSE LET d == CHOOSE i \in at : \A j \in at : i <= j
                    segment1 == join(SubSeq(ls, 1, d - 1), <<"\n">>)
                    segment2 == join(SubSeq(ls, d + 1, Len(ls)), <<"\n">>)
                IN /\ c_result.headers = parse_headers(segment1)
                   /\ c_result.ok = parse_chunklist(segment2).ok
                   /\ c_result.chunks = parse_chunklist(segment2).chunks

\* The chunk records of the manifests on the disk and of the one being applied.
KnownChunks ==
    UNION {{Chunklist(m)[i] : i \in 1..Len(Chunklist(m))} : m \in {current, old, manifest_raw} \ {None}}

\* The file is the installed object of the chunk: its data has the chunk's
\* hash under the hasher, and its mode is the chunk's, made read-only.
ObjectOf(c, method, file) ==
    /\ HasherDigest(method, file.data) = c.hash
    /\ file.mode = SetReadonly(c.permissions)

\* C23: two chunk records that differ in hash or in permissions have different
\* store file names; so when the install loop has ended, the file at the name
\* of every chunk of the manifest is the object of that chunk, none having
\* been passed over for another chunk's object at its name; and every object
\* a collection retains is the object of a chunk of current or old with that
\* name.
C23_KeyInjective ==
    /\ [](\A a, b \in KnownChunks :
            (a.hash # b.hash \/ a.permissions # b.permissions) =>
                chunk_filename(a) # chunk_filename(b))
    /\ [](pc = "u_commit" =>
            \A i \in 1..Len(Chunklist(manifest_raw)) :
                LET c == Chunklist(manifest_raw)[i]
                IN ObjectOf(c, hash_method, chunkstore[chunk_filename(c)]))
    /\ [][GcStep =>
            \A n \in DOMAIN chunkstore' :
                \A m \in {current, old} \ {None} : \A i \in 1..Len(Chunklist(m)) :
                    LET c == Chunklist(m)[i]
                    IN chunk_filename(c) = n =>
                         ObjectOf(c, ResolveHasher(Parsed(m).Hasher), chunkstore'[n])]_vars

\* What is in the staging directory, the directory itself left out.
StagingEntries(fs) == {q \in DOMAIN fs : Under(q, StagingPath) /\ q # StagingPath}

\* C24: the loop of build_tree starts with an empty staging directory; at no
\* step of build_tree is anything outside the staging directory created,
\* removed or changed, whatever the chunk paths are; and when build_tree
\* returns Ok the files of the staging directory are, for each chunk, its
\* store object at the chunk's path under the staging directory.
C24_StagingContainment ==
    /\ (t_pc = "link" /\ t_idx = 1) =>
          StagingPath \in DOMAIN t_fs /\ StagingEntries(t_fs) = {}
    /\ t_pc # "idle" =>
          \A q \in (DOMAIN t_fs \cup DOMAIN t_before) :
              ~Under(q, StagingPath) =>
                  /\ q \in DOMAIN t_fs
                  /\ q \in DOMAIN t_before
                  /\ t_fs[q] = t_before[q]
    /\ (t_pc = "done" /\ t_result = "ok") =>
          /\ {q \in StagingEntries(t_fs) : ~t_fs[q].dir}
               = {StagingPath \o t_chunks[i].path.comps : i \in 1..Len(t_chunks)}
          /\ Cardinality({q \in StagingEntries(t_fs) : ~t_fs[q].dir}) = Len(t_chunks)
          /\ \A i \in 1..Len(t_chunks) :
               t_fs[StagingPath \o t_chunks[i].path.comps]
                 = t_fs[Append(ChunkstorePath, chunk_filename(t_chunks[i]))]

====
